---- MODULE Spec2Model ----
(***************************************************************************)
(* theme_builder: one run of main() as a state machine over a filesystem.  *)
(*                                                                         *)
(* A file name is a pair <<stem, suffix>> ("photo.png" is                  *)
(* <<"photo", ".png">>), a path is a sequence of names relative to the     *)
(* working directory, and the filesystem maps each existing path to a      *)
(* node.  A hex string is a sequence of one-character strings.             *)
(***************************************************************************)
EXTENDS Integers, Sequences, FiniteSets, TLC

VARIABLES
    fs,        \* the filesystem: existing path -> node
    fsStart,   \* the filesystem when the current run started
    fsFirst,   \* the filesystem when the first run ended (second run only)
    conf,      \* the configuration file: [file, doc]
    args,      \* the parsed command line: [parsed, image, alpha, preview]
    thief,     \* what the quantization collaborator returns for the image
    colors,    \* main's colors dict: [palette, hex, rgba]
    tidx,      \* 1-based position in files_conf["templates"]
    content,   \* template_content of the template being processed
    stdout,    \* palettes printed by print_palette_colors
    pc,        \* the step main() is at
    failedAt,  \* the step that called sys.exit, "" while running
    exitCode,  \* the process's exit status, -1 while running
    msg,       \* the message handed to sys.exit
    run        \* 1 for the first invocation, 2 for the re-run

vars == <<fs, fsStart, fsFirst, conf, args, thief, colors, tidx, content,
          stdout, pc, failedAt, exitCode, msg, run>>

----------------------------------------------------------------------------
(* Names and paths (pathlib.Path).                                         *)

N(stem, suffix) == <<stem, suffix>>
D(stem) == <<stem, "">>

Cwd == <<>>
PathName(p) == p[Len(p)]
PathStem(p) == PathName(p)[1]
PathSuffix(p) == PathName(p)[2]
Parent(p) == SubSeq(p, 1, Len(p) - 1)
IsPrefix(p, q) == Len(p) <= Len(q) /\ SubSeq(q, 1, Len(p)) = p
Prefixes(p) == {SubSeq(p, 1, n) : n \in 1..Len(p)}

\* str.lower() on the suffixes that occur
Lower(s) ==
    CASE s = ".PNG" -> ".png"
      [] s = ".TXT" -> ".txt"
      [] OTHER -> s

----------------------------------------------------------------------------
(* The filesystem.                                                         *)

NoText == <<>>
DirNode == [kind |-> "dir", tpl |-> <<>>, hex |-> NoText, rgba |-> NoText]
ImageData == [kind |-> "image", tpl |-> <<>>, hex |-> NoText, rgba |-> NoText]
PlainData == [kind |-> "text", tpl |-> <<>>, hex |-> NoText, rgba |-> NoText]

Exists(f, p) == p = Cwd \/ p \in DOMAIN f
IsDir(f, p) == p = Cwd \/ (p \in DOMAIN f /\ f[p].kind = "dir")
IsFile(f, p) == p \in DOMAIN f /\ f[p].kind # "dir"

\* f with node d at path p
Put(f, p, d) == [q \in DOMAIN f \cup {p} |-> IF q = p THEN d ELSE f[q]]

\* Path.mkdir(parents=True, exist_ok=True): FileExistsError or
\* NotADirectoryError when a component of p is a file
MkdirParents(f, p) ==
    IF \E q \in Prefixes(p) : IsFile(f, q)
    THEN [ok |-> FALSE, fs |-> f]
    ELSE [ok |-> TRUE,
          fs |-> [q \in DOMAIN f \cup Prefixes(p) |->
                     IF q \in DOMAIN f THEN f[q] ELSE DirNode]]

----------------------------------------------------------------------------
(* The configuration file.  A TOML table is a function whose DOMAIN is the *)
(* set of keys present; a value carries its Python type.                   *)

IntVal(v) == [type |-> "int", val |-> v]
StrVal == [type |-> "str", val |-> 0]
ListVal(l) == [type |-> "list", val |-> l]
NotList == [type |-> "str", val |-> <<>>]

\* the limit of colors.count
MaxCount == 20

\* the errors of the [colors] section, in the order they are appended
ColorErrors(doc) ==
    IF "colors" \notin DOMAIN doc
    THEN <<"Missing required [colors] section in config.toml">>
    ELSE LET c == doc["colors"]
             Missing(field) ==
                 IF field \notin DOMAIN c
                 THEN <<"Missing required 'colors." \o field \o "' in config.toml">>
                 ELSE <<>>
             Count ==
                 IF "count" \in DOMAIN c
                 THEN IF c["count"].type # "int" \/ c["count"].val <= 0
                      THEN <<"Color count must be a positive integer">>
                      ELSE IF c["count"].val > MaxCount
                           THEN <<"Color count too large (max: 20)">>
                           ELSE <<>>
                 ELSE <<>>
             Quality ==
                 IF "quality" \in DOMAIN c
                    /\ (c["quality"].type # "int" \/ c["quality"].val < 1)
                 THEN <<"Quality must be a positive integer">>
                 ELSE <<>>
         IN  Missing("quality") \o Missing("count") \o Count \o Quality

\* the errors of files.templates
TemplateErrors(doc) ==
    IF "files" \notin DOMAIN doc
    THEN <<"Missing required [files] section in config.toml">>
    ELSE LET f == doc["files"]
         IN  IF "templates" \notin DOMAIN f
             THEN <<"Missing required 'files.templates' in config.toml">>
             ELSE IF f["templates"].type # "list" \/ f["templates"].val = <<>>
                  THEN <<"Templates list cannot be empty">>
                  ELSE <<>>

\* files.final_dir is present and truthy (a non-empty string)
HasFinalDir(doc) ==
    /\ "files" \in DOMAIN doc
    /\ "final_dir" \in DOMAIN doc["files"]
    /\ doc["files"]["final_dir"] # <<>>

\* validate_config's treatment of final_dir: the directory is created when
\* it does not exist.  denied: the mkdir raises PermissionError.
\* raised: it raises another OSError, which validate_config does not catch.
FinalDirCheck(doc, f, denied) ==
    IF ~HasFinalDir(doc) \/ Exists(f, doc["files"]["final_dir"])
    THEN [errors |-> <<>>, fs |-> f, raised |-> FALSE]
    ELSE IF denied
         THEN [errors |-> <<"Cannot create final directory">>, fs |-> f,
               raised |-> FALSE]
         ELSE LET m == MkdirParents(f, doc["files"]["final_dir"])
              IN  [errors |-> <<>>, fs |-> m.fs, raised |-> ~m.ok]

\* validate_config(conf): the errors it returns and the filesystem it leaves
validate_config(doc, f, denied) ==
    LET fd == FinalDirCheck(doc, f, denied)
    IN  [errors |-> ColorErrors(doc) \o TemplateErrors(doc) \o fd.errors,
         fs |-> fd.fs,
         raised |-> fd.raised]

----------------------------------------------------------------------------
(* Colour formatting.  Alpha is the rational num/den that the float holds. *)

HexChars == <<"0", "1", "2", "3", "4", "5", "6", "7",
              "8", "9", "A", "B", "C", "D", "E", "F">>
LowerHexChars == <<"0", "1", "2", "3", "4", "5", "6", "7",
                   "8", "9", "a", "b", "c", "d", "e", "f">>

\* format(v, "X") for v >= 0
RECURSIVE FormatX(_)
FormatX(v) ==
    IF v < 16 THEN <<HexChars[v + 1]>>
    ELSE Append(FormatX(v \div 16), HexChars[(v % 16) + 1])

\* "{:02X}".format(v): zero-padded to a width of at least two
Format02X(v) ==
    LET d == FormatX(v) IN IF Len(d) < 2 THEN <<"0">> \o d ELSE d

\* int(s, 16) for a sequence of hex digits of either case
HexValue(c) ==
    CHOOSE d \in 0..15 : HexChars[d + 1] = c \/ LowerHexChars[d + 1] = c
RECURSIVE ParseHex(_)
ParseHex(s) ==
    IF s = <<>> THEN 0
    ELSE 16 * ParseHex(SubSeq(s, 1, Len(s) - 1)) + HexValue(s[Len(s)])

\* all(isinstance(val, int) and 0 <= val <= 255 for val in [r, g, b])
ValidChannels(rgb) == \A k \in 1..3 : 0 <= rgb[k] /\ rgb[k] <= 255

\* the first index the loop of convert_to_hex rejects, 0 when there is none
FirstInvalid(list) ==
    LET bad == {i \in 1..Len(list) :
                   Len(list[i]) # 3 \/ ~ValidChannels(list[i])}
    IN  IF bad = {} THEN 0 ELSE CHOOSE i \in bad : \A j \in bad : i <= j

\* HexOf with the green and blue channels exchanged
HexOfSwapped(rgb) ==
    <<"#">> \o Format02X(rgb[1]) \o Format02X(rgb[3]) \o Format02X(rgb[2])

\* "#{:02X}{:02X}{:02X}".format(r, g, b)
HexOf(rgb) ==
    <<"#">> \o Format02X(rgb[1]) \o Format02X(rgb[2]) \o Format02X(rgb[3])

\* convert_to_hex(input_list): ok is FALSE when it raises ValueError
convert_to_hex(list) ==
    IF list = <<>>
    THEN [ok |-> FALSE, val |-> <<>>, err |-> "Color palette is empty"]
    ELSE IF FirstInvalid(list) # 0
         THEN [ok |-> FALSE, val |-> <<>>,
               err |-> IF Len(list[FirstInvalid(list)]) # 3
                       THEN "Invalid RGB value at index"
                       ELSE "RGB values must be integers 0-255 at index"]
         ELSE [ok |-> TRUE, val |-> [i \in 1..Len(list) |-> HexOf(list[i])],
               err |-> ""]

\* int(x) for the rational n/d, d > 0: truncation towards zero
IntOf(n, d) == IF n >= 0 THEN n \div d ELSE -((-n) \div d)

\* AlphaByte with round() in the place of int()
AlphaByteRounded(alpha) ==
    IntOf(2 * alpha.num * 255 + alpha.den, 2 * alpha.den)

\* a = int(alpha * 255)
AlphaByte(alpha) == IntOf(alpha.num * 255, alpha.den)

\* f"#{r:02X}{g:02X}{b:02X}{a:02X}"
RgbaOf(rgb, a) ==
    <<"#">> \o Format02X(rgb[1]) \o Format02X(rgb[2]) \o Format02X(rgb[3])
            \o Format02X(a)

\* convert_to_rgba(rgb_list, alpha): ok is FALSE when it raises ValueError
convert_to_rgba(list, alpha) ==
    IF list = <<>>
    THEN [ok |-> FALSE, val |-> <<>>, err |-> "Color palette is empty"]
    ELSE IF ~(0 <= AlphaByte(alpha) /\ AlphaByte(alpha) <= 255)
         THEN [ok |-> FALSE, val |-> <<>>, err |-> "Invalid alpha value"]
         ELSE IF FirstInvalid(list) # 0
              THEN [ok |-> FALSE, val |-> <<>>,
                    err |-> IF Len(list[FirstInvalid(list)]) # 3
                            THEN "unpack"
                            ELSE "RGB values must be integers 0-255 at index"]
              ELSE [ok |-> TRUE,
                    val |-> [i \in 1..Len(list) |->
                                RgbaOf(list[i], AlphaByte(alpha))],
                    err |-> ""]

\* print_palette_colors(hex_palette): one line per colour, the swatch's
\* decoded channels and the hex string
print_palette_colors(hex) ==
    [i \in 1..Len(hex) |->
        [r |-> ParseHex(SubSeq(hex[i], 2, 3)),
         g |-> ParseHex(SubSeq(hex[i], 4, 5)),
         b |-> ParseHex(SubSeq(hex[i], 6, 7)),
         hx |-> hex[i]]]

\* validate_alpha(value): float(value) parsed to num/den, then 0.0 <= alpha <= 1.0
validate_alpha(value) ==
    /\ value.parses
    /\ 0 <= value.num
    /\ value.num <= value.den

----------------------------------------------------------------------------
(* The inputs of a run.                                                    *)

Photo == <<N("photo", ".png")>>
PicInDir == <<D("pic"), N("pic", ".PNG")>>
Notes == <<N("notes", ".txt")>>
Gone == <<N("gone", ".png")>>
PicDir == <<D("pic")>>
NoImage == <<>>

Mirror == <<D("mirror")>>
NotesDir == <<D("notes")>>
EmptyString == <<>>

\* template names, relative to TEMPLATE_DIR
TColors == <<N("colors", ".css")>>
TAx == <<D("a"), N("x", ".css")>>
TBx == <<D("b"), N("x", ".css")>>
TPic == <<N("pic", ".PNG")>>
TWall == <<N("wallpaper", ".png")>>
TUndef == <<N("undef", ".css")>>
TSyntax == <<N("broken", ".css")>>
TMissing == <<N("missing", ".css")>>

\* what env.get_template(t).render(...) does for each template
TemplateStatus(t) ==
    CASE t = TUndef -> "undefined"
      [] t = TSyntax -> "syntax"
      [] t = TMissing -> "notfound"
      [] OTHER -> "ok"

TemplateLists ==
    {<<TColors>>, <<TColors, TUndef>>, <<TAx, TBx, TUndef>>, <<TPic, TWall>>,
     <<TColors, TMissing>>, <<TSyntax, TColors>>}

GoodColors == [quality |-> IntVal(10), count |-> IntVal(2)]
ColorsInputs ==
    {GoodColors,
     [quality |-> IntVal(10)],
     [count |-> IntVal(2)],
     [quality |-> IntVal(10), count |-> IntVal(0)],
     [quality |-> IntVal(10), count |-> IntVal(MaxCount + 1)],
     [quality |-> IntVal(10), count |-> StrVal],
     [quality |-> IntVal(0), count |-> IntVal(2)]}

FinalDirs == {EmptyString, Mirror, NotesDir}
FilesInputs ==
    {[templates |-> ListVal(l), final_dir |-> d] :
        l \in TemplateLists \cup {<<>>}, d \in FinalDirs}
    \cup {[templates |-> ListVal(l)] : l \in TemplateLists}
    \cup {[final_dir |-> d] : d \in FinalDirs}
    \cup {[templates |-> NotList, final_dir |-> Mirror]}

DocInputs ==
    {[colors |-> c, files |-> f] : c \in ColorsInputs, f \in FilesInputs}
    \cup {[colors |-> c] : c \in ColorsInputs}
    \cup {[files |-> f] : f \in FilesInputs}

ConfInputs ==
    {[file |-> "ok", doc |-> d] : d \in DocInputs}
    \cup {[file |-> k, doc |-> [colors |-> GoodColors]] :
             k \in {"missing", "invalid", "denied"}}

AlphaInputs ==
    {[parses |-> TRUE, num |-> 1, den |-> 1],
     [parses |-> TRUE, num |-> 1, den |-> 2],
     [parses |-> TRUE, num |-> 3, den |-> 2],
     [parses |-> FALSE, num |-> 0, den |-> 1]}

ArgvInputs ==
    [image : {Photo, PicInDir, Notes, Gone, PicDir, NoImage},
     alpha : AlphaInputs,
     preview : BOOLEAN]

\* what the quantization collaborator may return
ThiefInputs ==
    {<<>>,
     <<<<255, 10, 0>>>>,
     <<<<255, 10, 0>>, <<18, 52, 86>>>>,
     <<<<255, 10, 0>>, <<18, 52, 86>>, <<0, 0, 0>>>>,
     <<<<255, 10, 0>>, <<0, 256, 0>>>>,
     <<<<255, 10, 0>>, <<1, 2>>>>}

BaseFs ==
    [p \in {Photo, PicDir, PicInDir, Notes} |->
        IF p = PicDir THEN DirNode
        ELSE IF p = Notes THEN PlainData ELSE ImageData]

StaleFile == <<D("photo"), N("old", ".css")>>
FsInputs ==
    {BaseFs,
     Put(BaseFs, Mirror, DirNode),
     Put(Put(Put(Put(BaseFs, Mirror, DirNode), <<D("photo")>>, DirNode),
             StaleFile, PlainData), NotesDir, DirNode)}

\* an environment fault can occur in the first run; the re-run meets the
\* environment the first run met
Faults == IF run = 1 THEN BOOLEAN ELSE {FALSE}

NoColors == [palette |-> <<>>, hex |-> <<>>, rgba |-> <<>>]
NoArgs == [image |-> NoImage,
           alpha |-> [parses |-> TRUE, num |-> 1, den |-> 1],
           preview |-> FALSE]

Init ==
    /\ fs \in FsInputs
    /\ fsStart = fs
    /\ fsFirst = fs
    /\ conf \in ConfInputs
    /\ args = NoArgs
    /\ thief = [set |-> FALSE, pal |-> <<>>]
    /\ colors = NoColors
    /\ tidx = 0
    /\ content = PlainData
    /\ stdout = <<>>
    /\ pc = "get_config"
    /\ failedAt = ""
    /\ exitCode = -1
    /\ msg = <<>>
    /\ run = 1

\* sys.exit(message) at step: the process ends with status code
Exit(step, code, m) ==
    /\ pc' = "exit"
    /\ failedAt' = step
    /\ exitCode' = code
    /\ msg' = m

Goto(step) ==
    /\ pc' = step
    /\ UNCHANGED <<failedAt, exitCode, msg>>

\* get_config(): load the file, validate it, exit on any error
GetConfig ==
    /\ pc = "get_config"
    /\ \E denied \in Faults :
        IF conf.file = "missing"
        THEN Exit("get_config", 1, <<"Error: Configuration file not found">>)
             /\ UNCHANGED fs
        ELSE IF conf.file = "invalid"
        THEN Exit("get_config", 1, <<"Error: Invalid TOML in config file">>)
             /\ UNCHANGED fs
        ELSE IF conf.file = "denied"
        THEN Exit("get_config", 1,
                  <<"Error: Permission denied reading config file">>)
             /\ UNCHANGED fs
        ELSE LET v == validate_config(conf.doc, fs, denied)
             IN  /\ fs' = v.fs
                 /\ IF v.raised
                    THEN Exit("get_config", 1, <<"Error loading configuration">>)
                    ELSE IF v.errors # <<>>
                         THEN Exit("get_config", 1,
                                   <<"Configuration errors:">> \o v.errors)
                         ELSE Goto("parse_args")
    /\ UNCHANGED <<fsStart, fsFirst, conf, args, thief, colors, tidx, content,
                   stdout, run>>

\* parse_args() and main's check that the image exists
ParseArgs ==
    /\ pc = "parse_args"
    /\ \E a \in IF run = 1 THEN ArgvInputs ELSE {args} :
        /\ args' = a
        /\ IF a.image = NoImage
           THEN Exit("parse_args", 2, <<"usage: the following arguments are required: image">>)
           ELSE IF ~validate_alpha(a.alpha)
           THEN Exit("parse_args", 2, <<"usage: argument --alpha/-a">>)
           ELSE IF ~Exists(fs, a.image)
           THEN Exit("parse_args", 1, <<"Error: Image file not found">>)
           ELSE Goto("get_colors")
    /\ UNCHANGED <<fs, fsStart, fsFirst, conf, thief, colors, tidx, content,
                   stdout, run>>

----------------------------------------------------------------------------
(* Extraction, formatting, preview.                                        *)

SupportedFormats == {".jpg", ".jpeg", ".png", ".bmp", ".gif", ".webp"}

ColorConf == conf.doc["colors"]
FilesConf == conf.doc["files"]
Templates == FilesConf["templates"].val

\* the extension test of get_colors
Supported(image) == Lower(PathSuffix(image)) \in SupportedFormats

\* get_colors(image, quality, count)
GetColors ==
    /\ pc = "get_colors"
    /\ IF ~Exists(fs, args.image)
       THEN Exit("get_colors", 1, <<"Error: Image file not found">>)
            /\ UNCHANGED <<thief, colors>>
       ELSE IF ~IsFile(fs, args.image)
       THEN Exit("get_colors", 1, <<"Error: Path is not a file">>)
            /\ UNCHANGED <<thief, colors>>
       ELSE IF ~Supported(args.image)
       THEN Exit("get_colors", 1,
                 <<"Error: Unsupported image format:", PathSuffix(args.image)>>)
            /\ UNCHANGED <<thief, colors>>
       ELSE IF fs[args.image].kind # "image"
       THEN \* ColorThief cannot decode the file
            Exit("get_colors", 1, <<"Error processing image">>)
            /\ UNCHANGED <<thief, colors>>
       ELSE \E pal \in IF thief.set THEN {thief.pal} ELSE ThiefInputs :
            /\ thief' = [set |-> TRUE, pal |-> pal]
            /\ IF pal = <<>>
               THEN Exit("get_colors", 1,
                         <<"Error: Color extraction failed - no colors found in image">>)
                    /\ UNCHANGED colors
               ELSE Goto("convert")
                    /\ colors' = [palette |-> pal, hex |-> <<>>, rgba |-> <<>>]
    /\ UNCHANGED <<fs, fsStart, fsFirst, conf, args, tidx, content, stdout, run>>

\* main: colors["hex"], colors["rgba"] = the two conversions
Convert ==
    /\ pc = "convert"
    /\ LET h == convert_to_hex(colors.palette)
           r == convert_to_rgba(colors.palette, args.alpha)
       IN  IF ~h.ok
           THEN Exit("convert", 1, <<"Error in color conversion:", h.err>>)
                /\ UNCHANGED colors
           ELSE IF ~r.ok
           THEN Exit("convert", 1, <<"Error in color conversion:", r.err>>)
                /\ UNCHANGED colors
           ELSE Goto("preview")
                /\ colors' = [palette |-> colors.palette, hex |-> h.val,
                              rgba |-> r.val]
    /\ UNCHANGED <<fs, fsStart, fsFirst, conf, args, thief, tidx, content,
                   stdout, run>>

\* main: print_palette_colors(colors["hex"]), whatever args.preview is
Preview ==
    /\ pc = "preview"
    /\ stdout' = Append(stdout, print_palette_colors(colors.hex))
    /\ Goto("mkdir_out")
    /\ UNCHANGED <<fs, fsStart, fsFirst, conf, args, thief, colors, tidx,
                   content, run>>

----------------------------------------------------------------------------
(* The output directory and the templates.                                 *)

\* out_path = Path(img_path.stem)
OutPath(image) == <<D(PathStem(image))>>

\* main: out_path.mkdir(exist_ok=True)
MkdirOut ==
    /\ pc = "mkdir_out"
    /\ \E denied \in Faults :
        IF denied
        THEN Exit("mkdir_out", 1,
                  <<"Error: Permission denied creating output directory">>)
             /\ UNCHANGED fs
        ELSE IF IsFile(fs, OutPath(args.image))
        THEN Exit("mkdir_out", 1, <<"Error creating output directory">>)
             /\ UNCHANGED fs
        ELSE /\ fs' = IF Exists(fs, OutPath(args.image)) THEN fs
                      ELSE Put(fs, OutPath(args.image), DirNode)
             /\ Goto("check_disk")
    /\ UNCHANGED <<fsStart, fsFirst, conf, args, thief, colors, tidx, content,
                   stdout, run>>

\* check_disk_space(out_path)
CheckDisk ==
    /\ pc = "check_disk"
    /\ \E full \in Faults :
        IF full
        THEN Exit("check_disk", 1, <<"Error checking disk space">>)
        ELSE Goto("template_dir")
    /\ UNCHANGED <<fs, fsStart, fsFirst, conf, args, thief, colors, tidx,
                   content, stdout, run>>

\* main: TEMPLATE_DIR must exist; the Jinja2 environment is set up
TemplateDir ==
    /\ pc = "template_dir"
    /\ \E absent \in Faults :
        IF absent
        THEN Exit("template_dir", 1, <<"Error: Template directory not found">>)
             /\ UNCHANGED tidx
        ELSE Goto("render") /\ tidx' = 1
    /\ UNCHANGED <<fs, fsStart, fsFirst, conf, args, thief, colors, content,
                   stdout, run>>

\* the text a template renders to: it depends on the template and on the
\* palette= and rgba= bindings
Rendered(t, c) == [kind |-> "text", tpl |-> t, hex |-> c.hex, rgba |-> c.rgba]

\* output_file = out_path / Path(template_name).name
OutputFile(image, t) == OutPath(image) \o <<PathName(t)>>

\* RenderTemplate with a rollback: a failure removes the files the loop wrote
RenderTemplateRollback ==
    /\ pc = "render"
    /\ IF TemplateStatus(Templates[tidx]) # "ok"
       THEN /\ Exit("render", 1, <<"Error: Template file not found">>)
            /\ fs' = [p \in DOMAIN fs \ {OutputFile(args.image, Templates[j]) :
                                            j \in 1..(tidx - 1)} |-> fs[p]]
            /\ UNCHANGED content
       ELSE /\ Goto("save")
            /\ content' = Rendered(Templates[tidx], colors)
            /\ UNCHANGED fs
    /\ UNCHANGED <<fsStart, fsFirst, conf, args, thief, colors, tidx, stdout, run>>

\* RenderTemplate with a silent skip: a template that is not found is
\* passed over and the loop moves on
RenderTemplateSkip ==
    /\ pc = "render"
    /\ LET t == Templates[tidx]
           st == TemplateStatus(t)
       IN  IF st = "notfound"
           THEN /\ Goto(IF tidx = Len(Templates) THEN "final" ELSE "render")
                /\ tidx' = tidx + 1
                /\ UNCHANGED content
           ELSE IF st # "ok"
           THEN Exit("render", 1, <<"Error: Template syntax error">>)
                /\ UNCHANGED <<content, tidx>>
           ELSE Goto("save") /\ content' = Rendered(t, colors) /\ UNCHANGED tidx
    /\ UNCHANGED <<fs, fsStart, fsFirst, conf, args, thief, colors, stdout, run>>

\* render_template(env, template, colors)
RenderTemplate ==
    /\ pc = "render"
    /\ LET t == Templates[tidx]
           st == TemplateStatus(t)
       IN  IF st = "notfound"
           THEN Exit("render", 1, <<"Error: Template file not found">>)
                /\ UNCHANGED content
           ELSE IF st = "syntax"
           THEN Exit("render", 1, <<"Error: Template syntax error">>)
                /\ UNCHANGED content
           ELSE IF st = "undefined"
           THEN Exit("render", 1, <<"Error: Template variable error">>)
                /\ UNCHANGED content
           ELSE Goto("save") /\ content' = Rendered(t, colors)
    /\ UNCHANGED <<fs, fsStart, fsFirst, conf, args, thief, colors, tidx,
                   stdout, run>>

\* open(output_path, "w").write(content)
WriteFile(f, p, c) == Put(f, p, c)

\* SaveFile with a retry: a write that fails sends the loop back to render
\* the same template
SaveFileRetry ==
    /\ pc = "save"
    /\ \E denied \in Faults :
        LET p == OutputFile(args.image, Templates[tidx])
            m == MkdirParents(fs, Parent(p))
        IN  IF denied \/ ~m.ok \/ IsDir(m.fs, p)
            THEN Goto("render") /\ UNCHANGED <<fs, tidx>>
            ELSE /\ fs' = WriteFile(m.fs, p, content)
                 /\ tidx' = tidx + 1
                 /\ Goto(IF tidx = Len(Templates) THEN "final" ELSE "render")
    /\ UNCHANGED <<fsStart, fsFirst, conf, args, thief, colors, content,
                   stdout, run>>

\* save_file(output_file, template_content), then the loop moves on
SaveFile ==
    /\ pc = "save"
    /\ \E denied \in Faults :
        LET p == OutputFile(args.image, Templates[tidx])
            m == MkdirParents(fs, Parent(p))
        IN  IF denied
            THEN Exit("save", 1, <<"Error: Permission denied writing to">>)
                 /\ UNCHANGED <<fs, tidx>>
            ELSE IF ~m.ok \/ IsDir(m.fs, p)
            THEN Exit("save", 1, <<"Error: Failed to write file">>)
                 /\ UNCHANGED <<fs, tidx>>
            ELSE /\ fs' = WriteFile(m.fs, p, content)
                 /\ tidx' = tidx + 1
                 /\ Goto(IF tidx = Len(Templates) THEN "final" ELSE "render")
    /\ UNCHANGED <<fsStart, fsFirst, conf, args, thief, colors, content,
                   stdout, run>>

----------------------------------------------------------------------------
(* The copy to final_dir.                                                  *)

\* main: files_conf["final_dir"] is looked up; a missing key raises
\* KeyError, which main's "except Exception" turns into an exit
FinalDirLookup ==
    /\ pc = "final"
    /\ IF "final_dir" \notin DOMAIN FilesConf
       THEN Exit("final", 1, <<"Unexpected error:", "'final_dir'">>)
       ELSE IF FilesConf["final_dir"] = EmptyString
       THEN Exit("", 0, <<>>)
       ELSE Goto("copy_wallpaper")
    /\ UNCHANGED <<fs, fsStart, fsFirst, conf, args, thief, colors, tidx,
                   content, stdout, run>>

\* output_wallpaper = out_path / ("wallpaper" + img_path.suffix)
WallpaperFile(image) == OutPath(image) \o <<N("wallpaper", PathSuffix(image))>>

\* shutil.copy2(src, dst) writes into dst when dst is a directory
CopyTarget(f, src, dst) == IF IsDir(f, dst) THEN dst \o <<PathName(src)>> ELSE dst

\* copy_with_error_handling(img_path, output_wallpaper)
CopyWallpaper ==
    /\ pc = "copy_wallpaper"
    /\ \E denied \in Faults :
        LET src == args.image
            dst == CopyTarget(fs, src, WallpaperFile(args.image))
        IN  IF denied
            THEN Exit("copy_wallpaper", 1, <<"Error: Permission denied copying">>)
                 /\ UNCHANGED fs
            ELSE IF src = dst \/ ~IsFile(fs, src) \/ IsDir(fs, dst)
                    \/ ~IsDir(fs, Parent(dst))
            THEN Exit("copy_wallpaper", 1, <<"Error copying file">>)
                 /\ UNCHANGED fs
            ELSE /\ fs' = WriteFile(fs, dst, fs[src])
                 /\ Goto("copytree")
    /\ UNCHANGED <<fsStart, fsFirst, conf, args, thief, colors, tidx, content,
                   stdout, run>>

\* the paths at and below directory d
Tree(f, d) == {p \in DOMAIN f : IsPrefix(d, p)}
\* where copytree(src, dst) puts the entry p of src
Moved(src, dst, p) == dst \o SubSeq(p, Len(src) + 1, Len(p))

\* the entries of src that copytree cannot copy: a directory in the place of
\* a file, a file in the place of a directory, or the file itself
CopyConflicts(f, src, dst) ==
    {p \in Tree(f, src) :
        LET q == Moved(src, dst, p)
        IN  \/ q = p
            \/ (IsFile(f, p) /\ IsDir(f, q))
            \/ (IsDir(f, p) /\ IsFile(f, q))}

\* shutil.copytree(src, dst, dirs_exist_ok=True): the filesystem it leaves;
\* what is already in dst and is not overwritten stays
CopyTreeFs(f, src, dst) ==
    LET m == MkdirParents(f, dst).fs
        copied == Tree(f, src) \ CopyConflicts(f, src, dst)
        targets == {Moved(src, dst, p) : p \in copied}
    IN  [q \in DOMAIN m \cup targets |->
            IF q \in targets
            THEN f[CHOOSE p \in copied : Moved(src, dst, p) = q]
            ELSE m[q]]

\* final_dir = Path(files_conf["final_dir"]) / out_path; copytree
CopyTree ==
    /\ pc = "copytree"
    /\ \E denied \in Faults :
        LET src == OutPath(args.image)
            dst == FilesConf["final_dir"] \o OutPath(args.image)
        IN  IF denied \/ ~MkdirParents(fs, dst).ok
            THEN Exit("copytree", 1, <<"Error copying theme files">>)
                 /\ UNCHANGED fs
            ELSE /\ fs' = CopyTreeFs(fs, src, dst)
                 /\ IF CopyConflicts(fs, src, dst) # {}
                    THEN Exit("copytree", 1, <<"Error copying theme files">>)
                    ELSE Exit("", 0, <<>>)
    /\ UNCHANGED <<fsStart, fsFirst, conf, args, thief, colors, tidx, content,
                   stdout, run>>

\* the tool is invoked a second time, with the same command line, after a
\* first run that succeeded
Rerun ==
    /\ pc = "exit"
    /\ exitCode = 0
    /\ run = 1
    /\ run' = 2
    /\ fsFirst' = fs
    /\ fsStart' = fs
    /\ pc' = "get_config"
    /\ failedAt' = ""
    /\ exitCode' = -1
    /\ msg' = <<>>
    /\ colors' = NoColors
    /\ tidx' = 0
    /\ content' = PlainData
    /\ stdout' = <<>>
    /\ UNCHANGED <<fs, conf, args, thief>>

Next ==
    \/ GetConfig
    \/ ParseArgs
    \/ GetColors
    \/ Convert
    \/ Preview
    \/ MkdirOut
    \/ CheckDisk
    \/ TemplateDir
    \/ RenderTemplate
    \/ SaveFile
    \/ FinalDirLookup
    \/ CopyWallpaper
    \/ CopyTree
    \/ Rerun

Spec == Init /\ [][Next]_vars

----------------------------------------------------------------------------
(* The formatter on its own: Convert and Preview applied to palettes and   *)
(* alpha values drawn from bounded sets.                                   *)

MaxPaletteLen == 3
AlphaDen == 20

\* every channel value occurs at every position
AllChannelTriples == {<<v, 255 - v, (v * 7) % 256>> : v \in 0..255}
SmallTriples ==
    {<<0, 0, 0>>, <<255, 255, 255>>, <<9, 16, 171>>, <<0, 256, 0>>, <<-1, 5, 5>>}
FmtPalettes ==
    {<<t>> : t \in AllChannelTriples}
    \cup UNION {[1..n -> SmallTriples] : n \in 0..MaxPaletteLen}
    \cup {<<<<1, 2>>>>, <<<<1, 2, 3, 4>>>>}
FmtAlphas ==
    {[parses |-> TRUE, num |-> n, den |-> AlphaDen] : n \in (-1)..(AlphaDen + 1)}

InitFmt ==
    /\ fs = BaseFs
    /\ fsStart = fs
    /\ fsFirst = fs
    /\ conf = [file |-> "ok", doc |-> [colors |-> GoodColors]]
    /\ args \in [image : {Photo}, alpha : FmtAlphas, preview : {TRUE}]
    /\ thief = [set |-> FALSE, pal |-> <<>>]
    /\ colors \in [palette : FmtPalettes, hex : {<<>>}, rgba : {<<>>}]
    /\ tidx = 0
    /\ content = PlainData
    /\ stdout = <<>>
    /\ pc = "convert"
    /\ failedAt = ""
    /\ exitCode = -1
    /\ msg = <<>>
    /\ run = 1

NextFmt ==
    \/ Convert
    \/ Preview

SpecFmt == InitFmt /\ [][NextFmt]_vars

ValidPalette(p) ==
    /\ p # <<>>
    /\ \A i \in 1..Len(p) :
        Len(p[i]) = 3 /\ \A k \in 1..3 : p[i][k] \in 0..255
AlphaInRange(a) == 0 <= a.num /\ a.num <= a.den
Converted == pc \in {"preview", "mkdir_out"}
UpperHexDigit(c) == \E d \in 1..16 : HexChars[d] = c

\* C7: for a non-empty palette of triples with channels in 0..255 the
\* conversion succeeds, convert_to_hex returns as many strings as the
\* palette has entries, each is "#" and six uppercase hex digits, and the
\* channels print_palette_colors decodes from string i are the triple i.
C7_HexRoundTrip ==
    /\ (ValidPalette(colors.palette) /\ AlphaInRange(args.alpha)) => pc # "exit"
    /\ Converted =>
        /\ ValidPalette(colors.palette)
        /\ Len(colors.hex) = Len(colors.palette)
        /\ \A i \in 1..Len(colors.hex) :
            /\ Len(colors.hex[i]) = 7
            /\ colors.hex[i][1] = "#"
            /\ \A k \in 2..7 : UpperHexDigit(colors.hex[i][k])
    /\ pc = "mkdir_out" =>
        /\ Len(stdout) = 1
        /\ Len(stdout[1]) = Len(colors.palette)
        /\ \A i \in 1..Len(colors.palette) :
            /\ <<stdout[1][i].r, stdout[1][i].g, stdout[1][i].b>>
                   = colors.palette[i]
            /\ stdout[1][i].hx = colors.hex[i]

\* a palette of two or more entries with a channel below 16 (zero padding)
\* was converted and previewed
C7_Witness ==
    /\ pc = "mkdir_out"
    /\ Len(colors.palette) >= 2
    /\ \E i \in 1..Len(colors.palette) : colors.palette[i] = <<9, 16, 171>>

TwoHexDigits(n) == <<HexChars[(n \div 16) + 1], HexChars[(n % 16) + 1]>>

\* C8: for a non-empty valid palette and alpha in [0.0, 1.0],
\* convert_to_rgba's string i is convert_to_hex's string i followed by the
\* two uppercase hex digits of floor(alpha * 255): FF at 1.0, 00 at 0.0,
\* truncated and not rounded; the out-of-range alpha check does not fire.
C8_RgbaIsHexPlusTruncatedAlpha ==
    /\ (pc = "exit" /\ AlphaInRange(args.alpha)) =>
           msg # <<"Error in color conversion:", "Invalid alpha value">>
    /\ (Converted /\ AlphaInRange(args.alpha)) =>
        /\ Len(colors.rgba) = Len(colors.palette)
        /\ \A i \in 1..Len(colors.rgba) :
            colors.rgba[i] = colors.hex[i]
                \o TwoHexDigits((args.alpha.num * 255) \div args.alpha.den)
        /\ args.alpha.num = args.alpha.den =>
               \A i \in 1..Len(colors.rgba) :
                   SubSeq(colors.rgba[i], 8, 9) = <<"F", "F">>
        /\ args.alpha.num = 0 =>
               \A i \in 1..Len(colors.rgba) :
                   SubSeq(colors.rgba[i], 8, 9) = <<"0", "0">>

\* alpha = 0.5, where alpha * 255 = 127.5 truncates to 7F and rounds to 80
C8_Witness ==
    /\ Converted
    /\ 2 * args.alpha.num = args.alpha.den
    /\ colors.rgba[1] = <<"#", "0", "9", "1", "0", "A", "B", "7", "F">>

----------------------------------------------------------------------------
(* The claims about a run.                                                 *)

CountMissing ==
    /\ conf.file = "ok"
    /\ "colors" \in DOMAIN conf.doc
    /\ "count" \notin DOMAIN conf.doc["colors"]
InSeq(x, q) == \E i \in 1..Len(q) : q[i] = x

\* C1: with colors.count missing the run aborts in configuration
\* validation, the message names the missing 'colors.count' key, and the
\* filesystem at the abort is the filesystem before the run.
C1_MissingCountAbortsUntouched ==
    (CountMissing /\ pc # "get_config") =>
        /\ pc = "exit"
        /\ failedAt = "get_config"
        /\ exitCode # 0
        /\ InSeq("Missing required 'colors.count' in config.toml", msg)
        /\ fs = fsStart

\* the last of the templates j..k-1 that is written to template j's file
LastWriter(j, k) ==
    CHOOSE m \in j..(k - 1) :
        /\ PathName(Templates[m]) = PathName(Templates[j])
        /\ \A n \in (m + 1)..(k - 1) :
               PathName(Templates[n]) # PathName(Templates[j])

RenderFailed == pc = "exit" /\ failedAt = "render"

\* C2 as stated: when rendering template k fails the run has failed and the
\* output file of every template j < k is present with template j's own
\* rendered content.
C2_EarlierOutputsKeepOwnContent ==
    RenderFailed =>
        /\ exitCode # 0
        /\ \A j \in 1..(tidx - 1) :
            LET p == OutputFile(args.image, Templates[j])
            IN  IsFile(fs, p) /\ fs[p] = Rendered(Templates[j], colors)

\* C2 as amended: when rendering template k fails the run has failed and the
\* output file of every template j < k is present, holding the rendered
\* content of the last template among 1..k-1 that has the same file name
\* (template j's own content when no later one shares its file name);
\* nothing was removed or reverted.
C2_EarlierOutputsRemain ==
    RenderFailed =>
        /\ exitCode # 0
        /\ \A j \in 1..(tidx - 1) :
            LET p == OutputFile(args.image, Templates[j])
            IN  /\ IsFile(fs, p)
                /\ fs[p] = Rendered(Templates[LastWriter(j, tidx)], colors)

\* the third template failed after two templates of the same file name
\* were written
C2_Witness ==
    /\ RenderFailed
    /\ tidx = 3
    /\ Templates[1] # Templates[2]
    /\ PathName(Templates[1]) = PathName(Templates[2])
    /\ IsFile(fs, OutputFile(args.image, Templates[2]))

\* C3: after a successful run with final_dir configured,
\* final_dir/<stem>/wallpaper<ext> exists and holds what the input image
\* held when the run started.
C3_WallpaperIsInputImage ==
    (pc = "exit" /\ exitCode = 0 /\ HasFinalDir(conf.doc)) =>
        LET w == FilesConf["final_dir"] \o WallpaperFile(args.image)
        IN  IsFile(fs, w) /\ fs[w] = fsStart[args.image]

\* C4: with a valid configuration that omits final_dir, a run whose
\* extraction, rendering and writing all succeeded ends with exit code 0
\* without copying the wallpaper or the output directory.
C4_NoFinalDirSucceeds ==
    (/\ pc = "exit"
     /\ conf.file = "ok"
     /\ failedAt \notin {"get_config", "parse_args", "get_colors", "convert",
                         "mkdir_out", "check_disk", "template_dir", "render",
                         "save"}
     /\ "final_dir" \notin DOMAIN FilesConf) =>
        /\ exitCode = 0
        /\ failedAt = ""
        /\ ~IsFile(fs, WallpaperFile(args.image))
               \/ IsFile(fsStart, WallpaperFile(args.image))
               \/ InSeq(<<PathName(WallpaperFile(args.image))>>, Templates)

\* C5: a palette that extraction passes on to formatting has exactly
\* colors.count entries.
C5_PaletteHasCountEntries ==
    colors.palette # <<>> => Len(colors.palette) = ColorConf["count"].val

\* C6: for an image that is a regular file with an unsupported extension
\* the run fails in extraction, the message names the extension, and the
\* per-image output directory exists only if it existed before the run.
C6_UnsupportedExtensionNoOutputDir ==
    (/\ pc = "exit"
     /\ failedAt \notin {"get_config", "parse_args"}
     /\ IsFile(fsStart, args.image)
     /\ ~Supported(args.image)) =>
        /\ failedAt = "get_colors"
        /\ exitCode # 0
        /\ msg = <<"Error: Unsupported image format:", PathSuffix(args.image)>>
        /\ Exists(fs, OutPath(args.image)) => Exists(fsStart, OutPath(args.image))

\* C9: the palette preview is printed if and only if --preview was given:
\* never without the flag, and always with it once formatting is done.
C9_PreviewOnlyWithFlag ==
    /\ stdout # <<>> => args.preview
    /\ (args.preview /\ pc \in {"mkdir_out", "check_disk", "template_dir",
                                "render", "save", "final", "copy_wallpaper",
                                "copytree"}) => stdout # <<>>

\* the files of the per-image output directory and of its mirror
OutputFiles(f) ==
    {p \in DOMAIN f :
        \/ IsPrefix(OutPath(args.image), p)
        \/ HasFinalDir(conf.doc)
           /\ IsPrefix(FilesConf["final_dir"] \o OutPath(args.image), p)}

\* C10: a second run on the same image with the same configuration, after a
\* first run that succeeded, succeeds too and leaves the output directory
\* (and the mirror) with the same files and contents as the first run did.
C10_RerunIdempotent ==
    (run = 2 /\ pc = "exit") =>
        /\ exitCode = 0
        /\ OutputFiles(fs) = OutputFiles(fsFirst)
        /\ \A p \in OutputFiles(fs) : fs[p] = fsFirst[p]

----------------------------------------------------------------------------
(* The order of the steps of a run.                                        *)

\* the step that follows step p (at template i) when p does not exit
Successor(p, i, q, j) ==
    \/ p = "get_config" /\ q = "parse_args" /\ j = i
    \/ p = "parse_args" /\ q = "get_colors" /\ j = i
    \/ p = "get_colors" /\ q = "convert" /\ j = i
    \/ p = "convert" /\ q = "preview" /\ j = i
    \/ p = "preview" /\ q = "mkdir_out" /\ j = i
    \/ p = "mkdir_out" /\ q = "check_disk" /\ j = i
    \/ p = "check_disk" /\ q = "template_dir" /\ j = i
    \/ p = "template_dir" /\ q = "render" /\ j = 1
    \/ p = "render" /\ q = "save" /\ j = i
    \/ p = "save" /\ i < Len(Templates) /\ q = "render" /\ j = i + 1
    \/ p = "save" /\ i = Len(Templates) /\ q = "final" /\ j = i + 1
    \/ p = "final" /\ HasFinalDir(conf.doc) /\ q = "copy_wallpaper" /\ j = i
    \/ p = "copy_wallpaper" /\ q = "copytree" /\ j = i

\* the steps after which the run may end in the success state
LastStep(p) == p = "copytree" \/ (p = "final" /\ ~HasFinalDir(conf.doc))

OrderedStep ==
    IF run' # run
    THEN pc = "exit" /\ exitCode = 0 /\ pc' = "get_config"
    ELSE /\ pc # "exit"
         /\ \/ pc' = "exit" /\ exitCode' # 0 /\ msg' # <<>> /\ failedAt' = pc
            \/ pc' = "exit" /\ exitCode' = 0 /\ LastStep(pc)
            \/ pc' # "exit" /\ exitCode' = -1 /\ Successor(pc, tidx, pc', tidx')
         /\ (pc = "render" /\ pc' = "save") =>
                content' = Rendered(Templates[tidx], colors)

\* C11: a run takes its steps in the fixed order validate config, parse
\* arguments, extract, format, preview, then render and write for each
\* template in list order, then mirror; every step is followed by the next
\* one or by the terminal failure state (non-zero exit, a message), never by
\* itself or an earlier step; nothing follows the terminal state within the
\* run; the success state follows only the last step.
C11_FixedOrder == [][OrderedStep]_vars

\* a run with two templates and a mirror directory that succeeded
C11_Witness ==
    /\ pc = "exit"
    /\ exitCode = 0
    /\ run = 1
    /\ HasFinalDir(conf.doc)
    /\ Len(Templates) = 2
    /\ tidx = 3

----------------------------------------------------------------------------
(* Template resolution and the input image.                                *)

\* the template loop has been entered
InLoop == tidx >= 1
SomeMissing == \E j \in 1..Len(Templates) : TemplateStatus(Templates[j]) = "notfound"
NamesWritten(k) == {PathName(Templates[j]) : j \in 1..(k - 1)}

\* C12 as stated: when a template of the list is missing, at whatever
\* position, the run aborts before any template is rendered and before any
\* output file is written.
C12_MissingTemplateAbortsBeforeRendering ==
    (InLoop /\ SomeMissing) =>
        /\ tidx = 1
        /\ pc \in {"render", "exit"}
        /\ \A j \in 1..Len(Templates) :
            LET p == OutputFile(args.image, Templates[j])
            IN  Exists(fs, p) => (Exists(fsStart, p) /\ fs[p] = fsStart[p])

\* C12 as amended: a template is resolved when its turn in the loop comes.
\* The loop never gets past a missing template; when the template at
\* position k is missing the run aborts at that render step with the
\* "not found" message, the output files of templates 1..k-1 have been
\* written, and no file is written for template k or a later one (a file
\* name shared with an earlier template apart).
C12_MissingTemplateAbortsAtItsTurn ==
    InLoop =>
        /\ \A j \in 1..(tidx - 1) : TemplateStatus(Templates[j]) = "ok"
        /\ (pc = "save" \/ failedAt = "save") =>
               TemplateStatus(Templates[tidx]) = "ok"
        /\ (tidx <= Len(Templates) /\ pc \in {"render", "save", "exit"}
            /\ TemplateStatus(Templates[tidx]) = "notfound") =>
            /\ pc = "exit" =>
                /\ failedAt = "render"
                /\ exitCode # 0
                /\ msg = <<"Error: Template file not found">>
                /\ \A j \in 1..(tidx - 1) :
                       IsFile(fs, OutputFile(args.image, Templates[j]))
            /\ \A j \in tidx..Len(Templates) :
                LET p == OutputFile(args.image, Templates[j])
                IN  PathName(Templates[j]) \notin NamesWritten(tidx) =>
                        /\ Exists(fs, p) = Exists(fsStart, p)
                        /\ Exists(fs, p) => fs[p] = fsStart[p]

\* the second template was missing and the first one's output is on disk
C12_Witness ==
    /\ pc = "exit"
    /\ failedAt = "render"
    /\ tidx = 2
    /\ TemplateStatus(Templates[2]) = "notfound"
    /\ IsFile(fs, OutputFile(args.image, Templates[1]))
    /\ ~Exists(fsStart, OutputFile(args.image, Templates[1]))

\* C13: the file at the image path holds, in every state of a run, what it
\* held before the run.
C13_InputImageUnchanged ==
    (args.image # NoImage /\ Exists(fsStart, args.image)) =>
        /\ Exists(fs, args.image)
        /\ fs[args.image] = fsStart[args.image]

====
